---------------------------- MODULE Spec2Model ----------------------------
(***************************************************************************)
(* Caching reverse proxy (schlafer/Cache-Proxy-Server).                    *)
(*                                                                         *)
(* Two programs live in the repository and both are modelled:              *)
(*   prog = "optimal" : src/optimal/optimal.go (bounded cache, eviction    *)
(*                      channel, error returns)                            *)
(*   prog = "main"    : src/main.go (unbounded cache, no error returns)    *)
(* Every goroutine of net/http that serves one request is a process p.     *)
(* Steps are split where a goroutine can block or does upstream I/O (lock  *)
(* acquisition, channel send/receive, client.Do, io.ReadAll); statements   *)
(* that touch only the goroutine's locals are folded into the step before. *)
(***************************************************************************)
EXTENDS Integers, Sequences, FiniteSets, TLC

\* ------------------------------------------------------------------ bounds
\* cache-size flag (optimal.go:158, default 100), modelled small
MaxSize == 2
\* ttl flag (default "5m"), in clock ticks: an entry created at tick t is
\* live while now - t <= DefaultTTL
DefaultTTL == 0
\* the clock stops here
MaxTime == 1

Procs == {"g1", "g2"}
NoProc == "none"
Nil == [nil |-> TRUE]
NoKey == "-"

\* ------------------------------------------------------------ HTTP values
\* http.Header: a map from canonical header name to value
HdrNone == [x \in {} |-> ""]
Hdr1(k, v) == [x \in {k} |-> v]
Hdr2(k1, v1, k2, v2) == [x \in {k1, k2} |-> IF x = k1 THEN v1 ELSE v2]

\* The inbound requests the transport can hand to the handler.
\* path is r.URL.Path (decoded), query is r.URL.RawQuery.
Requests ==
  { [method |-> "GET", path |-> "/a", query |-> "", headers |-> Hdr1("Accept", "x"), body |-> "r1"],
    [method |-> "PUT", path |-> "/a", query |-> "", headers |-> Hdr1("Accept", "x"), body |-> "r1"],
    [method |-> "GET", path |-> "/a", query |-> "q=1", headers |-> Hdr1("Accept", "x"), body |-> "r1"],
    [method |-> "GET", path |-> "/%zz", query |-> "", headers |-> Hdr1("Accept", "x"), body |-> "r1"] }

\* The same, and a request with the method and URL of the first but other
\* headers and another body.
RequestVariants ==
  Requests \cup
  { [method |-> "GET", path |-> "/a", query |-> "", headers |-> Hdr1("Accept", "y"), body |-> "r2"] }

\* What the upstream can answer to a dispatched request.
UpstreamResponses ==
  { [status |-> 200, headers |-> Hdr1("Content-Type", "t"), body |-> <<"b1">>],
    [status |-> 404, headers |-> Hdr2("Content-Type", "t", "X-Cache", "UPSTREAM"), body |-> <<"b2">>] }

\* --target flag
targetHost == "http://up"

\* r.URL.String() of a server-side request: path, then "?" and the raw query
URLString(r) == IF r.query = "" THEN r.path ELSE r.path \o "?" \o r.query

\* md5 + hex, modelled as an injective function of the hashed bytes
MD5Hex(s) == "md5(" \o s \o ")"

generateCacheKey_WithHeaders(r) ==
  MD5Hex(URLString(r) \o r.method \o r.headers["Accept"])

generateCacheKey(r) == MD5Hex(URLString(r) \o r.method)

\* copyHeaders(src, dst): dst[k] = v for every k, v of src
copyHeaders(src, dst) ==
  [k \in (DOMAIN src) \cup (DOMAIN dst) |-> IF k \in DOMAIN src THEN src[k] ELSE dst[k]]

\* ------------------------------------------------- http.ResponseWriter (w)
\* code = 0: the status line and headers are not written yet; once they are,
\* later changes of w.Header() do not reach the client.
NewWriter == [code |-> 0, hdr |-> HdrNone, out |-> <<>>]

HeaderSet(w, k, v) ==
  IF w.code # 0 THEN w ELSE [w EXCEPT !.hdr = copyHeaders(Hdr1(k, v), w.hdr)]

HeaderCopy(w, src) ==
  IF w.code # 0 THEN w ELSE [w EXCEPT !.hdr = copyHeaders(src, w.hdr)]

WriteHeader(w, c) == IF w.code # 0 THEN w ELSE [w EXCEPT !.code = c]

\* w.Write: an implicit WriteHeader(200) when none was written
Write(w, b) == [WriteHeader(w, 200) EXCEPT !.out = @ \o b]

HttpError_Always500(w, msg, c) ==
  [w EXCEPT !.code = 500, !.out = @ \o <<msg>>]

\* http.Error(w, msg, code)
HttpError(w, msg, c) ==
  Write(WriteHeader(HeaderSet(HeaderSet(w, "Content-Type", "text/plain"),
                              "X-Content-Type-Options", "nosniff"), c), <<msg>>)

\* ----------------------------------------------------------------- state
VARIABLES
  prog,      \* which of the two programs runs
  store,     \* Cache.store: key -> CacheEntry
  eviction,  \* Cache.eviction: buffered channel of keys, capacity maxSize
  mu,        \* Cache.mu: [w: holder of the write lock, r: holders of read locks]
  now,       \* the clock
  crashed,   \* the runtime threw a fatal error (concurrent map access)
  pc,        \* position of each request goroutine
  r,         \* the inbound request it serves
  req,       \* the outbound request
  sent,      \* the headers the upstream received at dispatch
  resp,      \* the upstream response
  body,      \* what io.ReadAll returned
  created,   \* time.Now() taken for the CacheEntry
  oldestKey, \* Set's local: the key received from the eviction channel
  w,         \* the http.ResponseWriter of the request
  trace,     \* history: the handler statements the goroutine has executed
  reply,     \* the response the step just taken handed back to the
             \* transport (Nil when that step returned from no handler)
  inserted,  \* history: the stored keys in the order Set inserted them
  missed,    \* history: per key, the upstream responses answered as MISS
             \* since the key was last cleared, evicted or expired
  asked,     \* history: per key, the inbound requests answered from the
             \* entry now stored (the ones that stored it, the ones it served)
  stale      \* history: the goroutine holds an upstream response it fetched
             \* before a ClearCache that has run since

vars == <<prog, store, eviction, mu, now, crashed, pc, r, req, sent, resp,
          body, created, oldestKey, w, trace, reply, inserted, missed,
          asked, stale>>

cacheVars == <<store, eviction, inserted, missed, asked>>
localVars == <<r, req, sent, resp, body, created, oldestKey, w, trace, stale>>

maxSize == MaxSize
defaultTTL == DefaultTTL

Keys == {generateCacheKey(x) : x \in RequestVariants}

EmptyStore == [k \in {} |-> Nil]

Drop(f, k) == [x \in (DOMAIN f) \ {k} |-> f[x]]
Put(f, k, v) == [x \in (DOMAIN f) \cup {k} |-> IF x = k THEN v ELSE f[x]]
Without(s, k) == SelectSeq(s, LAMBDA x : x # k)
Forget(m, ks) == [k \in DOMAIN m |-> IF k \in ks THEN {} ELSE m[k]]
Events(t) == {t[i] : i \in DOMAIN t}
\* Get's effect on the history asked: an expired entry is forgotten, a hit
\* adds the request it served
Served(m, k, found, miss, x) ==
  IF found /\ miss THEN Forget(m, {k})
  ELSE IF ~miss THEN [m EXCEPT ![k] = @ \cup {x}]
  ELSE m

Expired_OffByOne(entry) == now - entry.Created > entry.TTL + 1

Expired_Always(entry) == now >= entry.Created

\* time.Since(entry.Created) > entry.TTL
Expired(entry) == now - entry.Created > entry.TTL

Init ==
  /\ prog \in {"optimal", "main"}
  /\ store = EmptyStore
  /\ eviction = <<>>
  /\ mu = [w |-> NoProc, r |-> {}]
  /\ now = 0
  /\ crashed = FALSE
  /\ pc = [p \in Procs |-> "idle"]
  /\ r = [p \in Procs |-> Nil]
  /\ req = [p \in Procs |-> Nil]
  /\ sent = [p \in Procs |-> Nil]
  /\ resp = [p \in Procs |-> Nil]
  /\ body = [p \in Procs |-> <<>>]
  /\ created = [p \in Procs |-> 0]
  /\ oldestKey = [p \in Procs |-> NoKey]
  /\ w = [p \in Procs |-> NewWriter]
  /\ trace = [p \in Procs |-> <<>>]
  /\ reply = Nil
  /\ inserted = <<>>
  /\ missed = [k \in Keys |-> {}]
  /\ asked = [k \in Keys |-> {}]
  /\ stale = [p \in Procs |-> FALSE]

\* http.NewRequest fails when the method or the target URL does not parse;
\* of the modelled requests only the path "/%zz" (an invalid escape) does not.
targetURL(x) == targetHost \o URLString(x)
NewRequestFails(x) == targetURL(x) = targetHost \o "/%zz"

Key(p) == generateCacheKey(r[p])

\* ----------------------------------------------------- the transport layer
\* net/http runs every request on a goroutine of its own: a free goroutine
\* takes a request x for "/" (handleProxy) or one for "/clear-cache"
\* (clearCacheHandler). The request becomes visible to the others with its
\* first step on the cache, the acquisition of the lock.
\* The handler returns (or panics and net/http recovers): the response as
\* written goes to the client and the goroutine is free for the next request.
Return(p, wr, tr) ==
  /\ reply' = [w |-> wr, trace |-> tr]
  /\ pc' = [pc EXCEPT ![p] = "idle"]
  /\ r' = [r EXCEPT ![p] = Nil]
  /\ req' = [req EXCEPT ![p] = Nil]
  /\ sent' = [sent EXCEPT ![p] = Nil]
  /\ resp' = [resp EXCEPT ![p] = Nil]
  /\ body' = [body EXCEPT ![p] = <<>>]
  /\ created' = [created EXCEPT ![p] = 0]
  /\ oldestKey' = [oldestKey EXCEPT ![p] = NoKey]
  /\ w' = [w EXCEPT ![p] = NewWriter]
  /\ trace' = [trace EXCEPT ![p] = <<>>]
  /\ stale' = [stale EXCEPT ![p] = FALSE]

\* Time passes.
Tick ==
  /\ ~crashed
  /\ now < MaxTime
  /\ now' = now + 1
  /\ UNCHANGED <<prog, mu, crashed, pc, cacheVars, localVars>>
  /\ reply' = Nil

\* p is about to write the map inside a read section that another goroutine
\* shares: a data race. The Go runtime may detect it ("fatal error:
\* concurrent map writes" / "concurrent map read and map write") and kill
\* the process, or the write may go through.
Racing(p) == mu.r \ {p} # {}

FatalError(p) ==
  /\ ~crashed
  /\ p \in mu.r
  /\ Racing(p)
  /\ \/ pc[p] = "Clear_in" /\ DOMAIN store # {}
     \/ pc[p] = "Get_in" /\ Key(p) \in DOMAIN store /\ Expired(store[Key(p)])
  /\ crashed' = TRUE
  /\ UNCHANGED <<prog, mu, now, pc, cacheVars, localVars>>
  /\ reply' = Nil

\* ------------------------------------------------- src/optimal/optimal.go
\* Cache.Get, c.mu.RLock()
Get_RLock_of(p, X) ==
  /\ ~crashed /\ prog = "optimal"
  /\ pc[p] = "idle"
  /\ \E x \in X : r' = [r EXCEPT ![p] = x]
  /\ mu.w = NoProc
  /\ mu' = [mu EXCEPT !.r = @ \cup {p}]
  /\ pc' = [pc EXCEPT ![p] = "Get_in"]
  /\ UNCHANGED <<prog, now, crashed, cacheVars, req, sent, resp, body, created, oldestKey, w, trace, stale>>
  /\ reply' = Nil

Get_RLock(p) == Get_RLock_of(p, Requests)

\* handleProxy lines 87-92: the entry Get found is served
ServeHit(wr, entry) ==
  Write(HeaderCopy(HeaderSet(wr, "X-Cache", "HIT"), entry.Headers), entry.Response)

\* Cache.Get lines 47-54 with the deferred RUnlock, then handleProxy lines
\* 87-111: a hit is served; on a miss X-Cache: MISS is set, the outbound
\* request is built (a failure is answered 500 and the handler returns) and
\* the client's headers are copied onto it
Get(p) ==
  /\ ~crashed /\ prog = "optimal"
  /\ pc[p] = "Get_in"
  /\ LET k == Key(p)
         found == k \in DOMAIN store
         miss == ~found \/ Expired(store[k])
         wm == HeaderSet(w[p], "X-Cache", "MISS")
     IN /\ mu' = [mu EXCEPT !.r = @ \ {p}]
        /\ store' = IF found /\ miss THEN Drop(store, k) ELSE store
        /\ inserted' = IF found /\ miss THEN Without(inserted, k) ELSE inserted
        /\ missed' = IF found /\ miss THEN Forget(missed, {k}) ELSE missed
        /\ asked' = Served(asked, k, found, miss, r[p])
        /\ IF ~miss
           THEN Return(p, ServeHit(w[p], store[k]), <<"Get", "Write">>)
           ELSE IF NewRequestFails(r[p])
           THEN Return(p, HttpError(wm, "Failed to create request", 500),
                       <<"Get", "NewRequest", "Error">>)
           ELSE /\ w' = [w EXCEPT ![p] = wm]
                /\ trace' = [trace EXCEPT ![p] = <<"Get", "NewRequest">>]
                /\ req' = [req EXCEPT ![p] =
                             [method |-> r[p].method, url |-> targetURL(r[p]),
                              headers |-> copyHeaders(r[p].headers, HdrNone)]]
                /\ pc' = [pc EXCEPT ![p] = "Do"]
                /\ UNCHANGED <<r, sent, resp, body, created, oldestKey, stale>>
                /\ reply' = Nil
  /\ UNCHANGED <<prog, eviction, now, crashed>>

Do_NoReturn(p) ==
  /\ ~crashed /\ prog = "optimal"
  /\ pc[p] = "Do"
  /\ \/ Return(p, HttpError(w[p], "Failed to forward request", 502),
               trace[p] \o <<"Do", "Error">>)
     \/ /\ \E u \in UpstreamResponses :
             /\ resp' = [resp EXCEPT ![p] = u]
             /\ \/ /\ body' = [body EXCEPT ![p] = u.body]
                   /\ trace' = [trace EXCEPT ![p] = trace[p] \o <<"Do", "ReadAll">>]
                   /\ UNCHANGED w
                \/ /\ body' = [body EXCEPT ![p] = <<>>]
                   /\ trace' = [trace EXCEPT ![p] = trace[p] \o <<"Do", "ReadAll", "Error">>]
                   /\ w' = [w EXCEPT ![p] = HttpError(w[p], "Failed to read response body", 500)]
        /\ sent' = [sent EXCEPT ![p] = req[p].headers]
        /\ created' = [created EXCEPT ![p] = now]
        /\ pc' = [pc EXCEPT ![p] = "Set"]
        /\ UNCHANGED <<r, req, oldestKey, stale>>
        /\ reply' = Nil
  /\ UNCHANGED <<prog, mu, now, crashed, cacheVars>>

\* handleProxy lines 113-131: p.client.Do(req) and io.ReadAll(resp.Body),
\* the two upstream exchanges. A dispatch failure is answered 502, a read
\* failure 500, and the handler returns; otherwise the CacheEntry is built
\* (Created: time.Now()) and Set is called
Do(p) ==
  /\ ~crashed /\ prog = "optimal"
  /\ pc[p] = "Do"
  /\ \/ Return(p, HttpError(w[p], "Failed to forward request", 502),
               trace[p] \o <<"Do", "Error">>)
     \/ Return(p, HttpError(w[p], "Failed to read response body", 500),
               trace[p] \o <<"Do", "ReadAll", "Error">>)
     \/ /\ \E u \in UpstreamResponses :
             /\ resp' = [resp EXCEPT ![p] = u]
             /\ body' = [body EXCEPT ![p] = u.body]
        /\ sent' = [sent EXCEPT ![p] = req[p].headers]
        /\ created' = [created EXCEPT ![p] = now]
        /\ trace' = [trace EXCEPT ![p] = trace[p] \o <<"Do", "ReadAll">>]
        /\ pc' = [pc EXCEPT ![p] = "Set"]
        /\ UNCHANGED <<r, req, oldestKey, w, stale>>
        /\ reply' = Nil
  /\ UNCHANGED <<prog, mu, now, crashed, cacheVars>>

NewEntry_RequestHeaders(p) ==
  [Response |-> body[p], Headers |-> req[p].headers,
   Created |-> created[p], TTL |-> defaultTTL]

\* handleProxy lines 127-132: the entry handed to Set
NewEntry(p) ==
  [Response |-> body[p], Headers |-> resp[p].headers,
   Created |-> created[p], TTL |-> defaultTTL]

\* Cache.Set, c.mu.Lock()
Set_Lock(p) ==
  /\ ~crashed /\ prog = "optimal"
  /\ pc[p] = "Set"
  /\ mu.w = NoProc /\ mu.r = {}
  /\ mu' = [mu EXCEPT !.w = p]
  /\ pc' = [pc EXCEPT ![p] = "Set_in"]
  /\ UNCHANGED <<prog, now, crashed, cacheVars, localVars>>
  /\ reply' = Nil

AtCapacity_OffByOne == Cardinality(DOMAIN store) > maxSize

\* Cache.Set line 62: len(c.store) >= c.maxSize
AtCapacity == Cardinality(DOMAIN store) >= maxSize

Receive_Newest(ch) == ch[Len(ch)]

\* Cache.Set line 64: <-c.eviction receives the element at the front
Receive(ch) == Head(ch)

\* Cache.Set lines 62-68: at capacity receive the oldest key from the
\* channel (blocks while it is empty) and delete it; then store the entry
Set(p) ==
  /\ ~crashed /\ prog = "optimal"
  /\ pc[p] = "Set_in"
  /\ AtCapacity => eviction # <<>>
  /\ LET k == Key(p)
         old == IF AtCapacity THEN Receive(eviction) ELSE NoKey
         st == IF AtCapacity THEN Drop(store, old) ELSE store
         ins == IF AtCapacity THEN Without(inserted, old) ELSE inserted
     IN /\ oldestKey' = [oldestKey EXCEPT ![p] = old]
        /\ eviction' = IF AtCapacity THEN Tail(eviction) ELSE eviction
        /\ store' = Put(st, k, NewEntry(p))
        /\ inserted' = IF k \in DOMAIN st THEN ins ELSE Append(ins, k)
        /\ missed' = IF AtCapacity THEN Forget(missed, {old}) ELSE missed
        /\ asked' = IF AtCapacity THEN Forget(asked, {old}) ELSE asked
  /\ trace' = [trace EXCEPT ![p] = Append(trace[p], "Set")]
  /\ pc' = [pc EXCEPT ![p] = "Set_send"]
  /\ UNCHANGED <<prog, mu, now, crashed, r, req, sent, resp, body, created, w, stale>>
  /\ reply' = Nil

\* Cache.Set line 69 and the deferred Unlock: send the key on the channel
\* (blocks while the channel is full); then handleProxy lines 134-135
Set_send(p) ==
  /\ ~crashed /\ prog = "optimal"
  /\ pc[p] = "Set_send"
  /\ Len(eviction) < maxSize
  /\ eviction' = Append(eviction, Key(p))
  /\ mu' = [mu EXCEPT !.w = NoProc]
  /\ missed' = [missed EXCEPT ![Key(p)] = @ \cup {resp[p]}]
  /\ asked' = [asked EXCEPT ![Key(p)] = @ \cup {r[p]}]
  /\ Return(p, Write(HeaderCopy(w[p], resp[p].headers), body[p]),
            Append(trace[p], "Write"))
  /\ UNCHANGED <<prog, store, inserted, now, crashed>>

ClearCache_Lock_Shared(p) ==
  /\ ~crashed /\ prog = "optimal"
  /\ pc[p] = "idle"
  /\ mu.w = NoProc
  /\ mu' = [mu EXCEPT !.r = @ \cup {p}]
  /\ store' = EmptyStore
  /\ inserted' = <<>>
  /\ missed' = Forget(missed, Keys)
  /\ asked' = Forget(asked, Keys)
  /\ stale' = [q \in Procs |-> stale[q] \/ pc[q] = "Set"]
  /\ pc' = [pc EXCEPT ![p] = "Clear_drain"]
  /\ UNCHANGED <<prog, eviction, now, crashed, r, req, sent, resp, body, created, oldestKey, w, trace>>
  /\ reply' = Nil

\* Cache.ClearCache lines 74-76: c.mu.Lock(), a fresh map
ClearCache_Lock(p) ==
  /\ ~crashed /\ prog = "optimal"
  /\ pc[p] = "idle"
  /\ mu.w = NoProc /\ mu.r = {}
  /\ mu' = [mu EXCEPT !.w = p]
  /\ store' = EmptyStore
  /\ inserted' = <<>>
  /\ missed' = Forget(missed, Keys)
  /\ asked' = Forget(asked, Keys)
  /\ stale' = [q \in Procs |-> stale[q] \/ pc[q] = "Set"]
  /\ pc' = [pc EXCEPT ![p] = "Clear_drain"]
  /\ UNCHANGED <<prog, eviction, now, crashed, r, req, sent, resp, body, created, oldestKey, w, trace>>
  /\ reply' = Nil

\* Cache.ClearCache lines 77-79: one iteration of the drain loop
ClearCache_drain(p) ==
  /\ ~crashed /\ prog = "optimal"
  /\ pc[p] = "Clear_drain"
  /\ Len(eviction) > 0
  /\ eviction' = Tail(eviction)
  /\ UNCHANGED <<prog, store, inserted, missed, asked, mu, now, crashed, pc, localVars>>
  /\ reply' = Nil

\* Cache.ClearCache: the loop ends, the deferred Unlock; clearCacheHandler
\* lines 141-143
clearCacheHandler(p) ==
  /\ ~crashed /\ prog = "optimal"
  /\ pc[p] = "Clear_drain"
  /\ Len(eviction) = 0
  /\ mu' = [mu EXCEPT !.w = NoProc]
  /\ Return(p, Write(WriteHeader(w[p], 200), <<"Cache cleared">>),
            <<"ClearCache", "Write">>)
  /\ UNCHANGED <<prog, cacheVars, now, crashed>>

\* ------------------------------------------------------------ src/main.go
\* Cache.Get, c.mu.RLock()
main_Get_RLock_of(p, X) ==
  /\ ~crashed /\ prog = "main"
  /\ pc[p] = "idle"
  /\ \E x \in X : r' = [r EXCEPT ![p] = x]
  /\ mu.w = NoProc
  /\ mu' = [mu EXCEPT !.r = @ \cup {p}]
  /\ pc' = [pc EXCEPT ![p] = "Get_in"]
  /\ UNCHANGED <<prog, now, crashed, cacheVars, req, sent, resp, body, created, oldestKey, w, trace, stale>>
  /\ reply' = Nil

main_Get_RLock(p) == main_Get_RLock_of(p, Requests)

\* handleProxy lines 83-90 of main.go (Header().Add on a fresh writer sets)
main_ServeHit(wr, entry) ==
  Write(HeaderCopy(HeaderSet(wr, "X-Cache", "HIT"), entry.Headers), entry.Response)

\* Cache.Get lines 47-55 with the deferred RUnlock, then handleProxy lines
\* 83-105: a hit is served; on a miss X-Cache: MISS is added and the
\* outbound request is built. A NewRequest failure is answered 500 and the
\* handler goes on: client.Do(nil) dereferences the nil request and panics
\* (net/http recovers the goroutine).
main_Get(p) ==
  /\ ~crashed /\ prog = "main"
  /\ pc[p] = "Get_in"
  /\ LET k == Key(p)
         found == k \in DOMAIN store
         miss == ~found \/ Expired(store[k])
         wm == HeaderSet(w[p], "X-Cache", "MISS")
     IN /\ mu' = [mu EXCEPT !.r = @ \ {p}]
        /\ store' = IF found /\ miss THEN Drop(store, k) ELSE store
        /\ asked' = Served(asked, k, found, miss, r[p])
        /\ IF ~miss
           THEN Return(p, main_ServeHit(w[p], store[k]), <<"Get", "Write">>)
           ELSE IF NewRequestFails(r[p])
           THEN Return(p, HttpError(wm, "Error while creating request", 500),
                       <<"Get", "NewRequest", "Error", "Do", "panic">>)
           ELSE /\ w' = [w EXCEPT ![p] = wm]
                /\ trace' = [trace EXCEPT ![p] = <<"Get", "NewRequest">>]
                /\ req' = [req EXCEPT ![p] =
                             [method |-> r[p].method, url |-> targetURL(r[p]),
                              headers |-> HdrNone]]
                /\ pc' = [pc EXCEPT ![p] = "Do"]
                /\ UNCHANGED <<r, sent, resp, body, created, oldestKey, stale>>
                /\ reply' = Nil
  /\ UNCHANGED <<prog, eviction, inserted, missed, now, crashed>>

\* handleProxy lines 107-121 of main.go: client.Do(req), then the client's
\* headers are added to the request that was already sent, then
\* io.ReadAll(resp.Body). A dispatch failure is answered 500 and the handler
\* goes on: resp is nil, and resp.Body on line 118 panics. A read failure is
\* answered 500 and the handler goes on to Set with the bytes read so far
\* (none, here).
main_Do(p) ==
  /\ ~crashed /\ prog = "main"
  /\ pc[p] = "Do"
  /\ \/ Return(p, HttpError(w[p], "Error while sending request", 500),
               trace[p] \o <<"Do", "Error", "panic">>)
     \/ /\ \E u \in UpstreamResponses :
             /\ resp' = [resp EXCEPT ![p] = u]
             /\ \/ /\ body' = [body EXCEPT ![p] = u.body]
                   /\ trace' = [trace EXCEPT ![p] = trace[p] \o <<"Do", "ReadAll">>]
                   /\ UNCHANGED w
                \/ /\ body' = [body EXCEPT ![p] = <<>>]
                   /\ trace' = [trace EXCEPT ![p] = trace[p] \o <<"Do", "ReadAll", "Error">>]
                   /\ w' = [w EXCEPT ![p] = HttpError(w[p], "Error while reading body", 500)]
        /\ sent' = [sent EXCEPT ![p] = req[p].headers]
        /\ req' = [req EXCEPT ![p].headers = copyHeaders(r[p].headers, @)]
        /\ created' = [created EXCEPT ![p] = now]
        /\ pc' = [pc EXCEPT ![p] = "Set"]
        /\ UNCHANGED <<r, oldestKey, stale>>
        /\ reply' = Nil
  /\ UNCHANGED <<prog, mu, now, crashed, cacheVars>>

\* handleProxy lines 122-127 of main.go: the entry handed to Set
main_NewEntry(p) ==
  [Response |-> body[p], Headers |-> req[p].headers,
   Created |-> created[p], TTL |-> defaultTTL]

\* Cache.Set of main.go (Lock, store, Unlock), then handleProxy lines 129-132
main_Set(p) ==
  /\ ~crashed /\ prog = "main"
  /\ pc[p] = "Set"
  /\ mu.w = NoProc /\ mu.r = {}
  /\ store' = Put(store, Key(p), main_NewEntry(p))
  /\ asked' = [asked EXCEPT ![Key(p)] = @ \cup {r[p]}]
  /\ Return(p, Write(HeaderCopy(w[p], resp[p].headers), body[p]),
            trace[p] \o <<"Set", "Write">>)
  /\ UNCHANGED <<prog, eviction, inserted, missed, mu, now, crashed>>

\* Cache.ClearCache of main.go, c.mu.RLock()
main_ClearCache_RLock(p) ==
  /\ ~crashed /\ prog = "main"
  /\ pc[p] = "idle"
  /\ mu.w = NoProc
  /\ mu' = [mu EXCEPT !.r = @ \cup {p}]
  /\ pc' = [pc EXCEPT ![p] = "Clear_in"]
  /\ UNCHANGED <<prog, now, crashed, cacheVars, localVars>>
  /\ reply' = Nil

\* Cache.ClearCache of main.go lines 69-71 with the deferred RUnlock, and
\* clearCacheHandler lines 138-140
main_ClearCache(p) ==
  /\ ~crashed /\ prog = "main"
  /\ pc[p] = "Clear_in"
  /\ store' = EmptyStore
  /\ asked' = Forget(asked, Keys)
  /\ mu' = [mu EXCEPT !.r = @ \ {p}]
  /\ Return(p, Write(WriteHeader(w[p], 200), <<"Cache cleared">>),
            <<"ClearCache", "Write">>)
  /\ UNCHANGED <<prog, eviction, inserted, missed, now, crashed>>

\* ------------------------------------------------------------------- spec
NextOptimal ==
  \E p \in Procs :
    \/ Get_RLock(p)
    \/ Get(p)
    \/ Do(p)
    \/ Set_Lock(p)
    \/ Set(p)
    \/ Set_send(p)
    \/ ClearCache_Lock(p)
    \/ ClearCache_drain(p)
    \/ clearCacheHandler(p)

NextMain ==
  \E p \in Procs :
    \/ main_Get_RLock(p)
    \/ main_Get(p)
    \/ main_Do(p)
    \/ main_Set(p)
    \/ main_ClearCache_RLock(p)
    \/ main_ClearCache(p)

NextShared ==
  \/ Tick
  \/ \E p \in Procs : FatalError(p)

Next == NextShared \/ NextOptimal \/ NextMain

\* both programs
Spec == Init /\ [][Next]_vars

\* src/optimal/optimal.go alone
InitOptimal == Init /\ prog = "optimal"
SpecOptimal == InitOptimal /\ [][NextShared \/ NextOptimal]_vars

\* src/main.go alone
InitMain == Init /\ prog = "main"
SpecMain == InitMain /\ [][NextShared \/ NextMain]_vars

\* either program serving one request after the other, the requests drawn
\* from RequestVariants
KeyProc == "g1"
NextKey ==
  \/ Tick
  \/ Get_RLock_of(KeyProc, RequestVariants)
  \/ Get(KeyProc)
  \/ Do(KeyProc)
  \/ Set_Lock(KeyProc)
  \/ Set(KeyProc)
  \/ Set_send(KeyProc)
  \/ main_Get_RLock_of(KeyProc, RequestVariants)
  \/ main_Get(KeyProc)
  \/ main_Do(KeyProc)
  \/ main_Set(KeyProc)
SpecKey == Init /\ [][NextKey]_vars


\* ------------------------------------------------------------- properties
Records == {eviction[i] : i \in DOMAIN eviction}
Age(entry) == now - entry.Created
IsHit(rep) == rep # Nil /\ rep.trace = <<"Get", "Write">>
IsMiss(rep) == rep # Nil /\ Len(rep.trace) >= 2 /\ rep.trace[2] = "NewRequest"
\* p takes the step that ends its Cache.Get
GetStep(p) == pc[p] = "Get_in" /\ pc'[p] # "Get_in"

\* C1: in optimal.go the store never holds more than maxSize entries, in
\* any state any interleaving of Get, Set and ClearCache reaches (the states
\* inside a Set included).
C1_CapacityBound == prog = "optimal" => Cardinality(DOMAIN store) <= maxSize

\* a Set has just evicted a key and stored a new one: the store is full
C1_Witness ==
  \E p \in Procs :
    /\ pc[p] = "Set_send"
    /\ oldestKey[p] \notin {NoKey, Key(p)}
    /\ Cardinality(DOMAIN store) = maxSize

\* C2: in both programs a Get that finds an entry older than its TTL does
\* not return it: the request is a miss, the key is gone from the map when
\* Get returns, and the request goes on to the upstream; and a Get that
\* serves a hit found an entry no older than its TTL.
C2_Expiry ==
  [][\A p \in Procs :
       GetStep(p) =>
         /\ (Key(p) \in DOMAIN store /\ Age(store[Key(p)]) > store[Key(p)].TTL)
              => /\ ~IsHit(reply')
                 /\ Key(p) \notin DOMAIN store'
                 /\ pc'[p] = "Do"
         /\ IsHit(reply')
              => /\ Key(p) \in DOMAIN store
                 /\ Age(store[Key(p)]) <= store[Key(p)].TTL]_vars

\* a request is on its way to the upstream although its key was stored
\* (its eviction record is still queued): Get removed the expired entry
C2_Witness ==
  \E p \in Procs :
    /\ pc[p] = "Do"
    /\ Key(p) \in Records
    /\ Key(p) \notin DOMAIN store
    /\ now > defaultTTL

\* the response wr replays the upstream response u: the same body, every
\* header of u with u's value, and nothing else but the indicator
Replays(wr, u) ==
  /\ wr.out = u.body
  /\ \A h \in DOMAIN u.headers : h \in DOMAIN wr.hdr /\ wr.hdr[h] = u.headers[h]
  /\ DOMAIN wr.hdr \subseteq DOMAIN u.headers \cup {"X-Cache"}

\* C3 as stated: in optimal.go, once a request for a key was answered MISS
\* with a successful forward, a lookup of that key while the entry is within
\* its TTL and was neither cleared nor evicted is answered HIT with no
\* upstream call, and body and headers are those of the upstream response
\* every such MISS obtained.
C3_Stated ==
  [][\A p \in Procs :
       (GetStep(p) /\ missed[Key(p)] # {}
          /\ Age(store[Key(p)]) <= store[Key(p)].TTL)
         => /\ IsHit(reply')
            /\ pc'[p] = "idle"
            /\ \A u \in missed[Key(p)] : Replays(reply'.w, u)]_vars

\* C3: in optimal.go, once a request for a key was answered MISS with a
\* successful forward and no other request has stored a different response
\* under that key since, a lookup of the key while the entry is within its
\* TTL and was neither cleared nor evicted is answered HIT with no upstream
\* call, and body and headers are those of the upstream response that MISS
\* obtained.
C3_HitAfterMiss ==
  [][\A p \in Procs :
       (GetStep(p) /\ Cardinality(missed[Key(p)]) = 1
          /\ Age(store[Key(p)]) <= store[Key(p)].TTL)
         => /\ IsHit(reply')
            /\ pc'[p] = "idle"
            /\ \A u \in missed[Key(p)] : Replays(reply'.w, u)]_vars

\* a hit has just replayed the one response stored under its key
C3_Witness ==
  /\ IsHit(reply)
  /\ \E k \in Keys : \E u \in missed[k] :
       missed[k] = {u} /\ Replays(reply.w, u)

InCache(p) == pc[p] \in {"Get_in", "Set_in", "Set_send", "Clear_drain"}

EndsWith(tr, suffix) ==
  /\ Len(tr) >= Len(suffix)
  /\ SubSeq(tr, Len(tr) - Len(suffix) + 1, Len(tr)) = suffix
Failed(rep) == rep # Nil /\ EndsWith(rep.trace, <<"Error">>)

\* C5: in optimal.go a forward that fails is answered 500 (construction),
\* 502 (dispatch) or 500 (body read); the failing request creates no entry
\* and no eviction record (the only entry it may have removed is the expired
\* one under its own key) and never reaches Set; and a request whose forward
\* succeeds is answered as a miss with its entry stored under its key.
C5_FailureIsolation ==
  [][\A p \in Procs :
       /\ (pc[p] # "idle" /\ pc'[p] = "idle" /\ Failed(reply'))
            => /\ EndsWith(reply'.trace, <<"NewRequest", "Error">>) => reply'.w.code = 500
               /\ EndsWith(reply'.trace, <<"Do", "Error">>) => reply'.w.code = 502
               /\ EndsWith(reply'.trace, <<"ReadAll", "Error">>) => reply'.w.code = 500
               /\ "Set" \notin Events(reply'.trace)
               /\ eviction' = eviction
               /\ \A k \in DOMAIN store' : k \in DOMAIN store /\ store'[k] = store[k]
               /\ \A k \in DOMAIN store \ DOMAIN store' :
                    k = Key(p) /\ Age(store[k]) > store[k].TTL
       /\ (pc[p] = "Set_send" /\ pc'[p] = "idle")
            => /\ IsMiss(reply') /\ ~Failed(reply')
               /\ Key(p) \in DOMAIN store'
               /\ store'[Key(p)].Response = body[p]]_vars

\* a dispatch failure has just been answered 502 while the cache holds
\* entries
C5_Witness ==
  /\ Failed(reply)
  /\ reply.w.code = 502
  /\ DOMAIN store # {}

\* C6: in main.go a request whose forward failed is answered with the
\* error and nothing else: the error is the last handler step it ran (no
\* dispatch, body read, Cache.Set or body write after it).
C6_StopsAfterFailure ==
  (reply # Nil /\ "Error" \in Events(reply.trace)) => Failed(reply)

\* C7: in optimal.go a Set of a key that is not stored, at a moment the
\* store holds maxSize entries, removes exactly one entry, the one inserted
\* first among those stored, and stores the new key.
C7_FIFO ==
  [][\A p \in Procs :
       (pc[p] = "Set_in" /\ pc'[p] = "Set_send"
          /\ Cardinality(DOMAIN store) = maxSize
          /\ Key(p) \notin DOMAIN store)
         => /\ inserted # <<>>
            /\ Head(inserted) \in DOMAIN store
            /\ DOMAIN store' = (DOMAIN store \ {Head(inserted)}) \cup {Key(p)}
            /\ Cardinality(DOMAIN store') = maxSize]_vars

\* a Set of a new key has just evicted another key from a full store
C7_Witness ==
  \E p \in Procs :
    /\ pc[p] = "Set_send"
    /\ oldestKey[p] # NoKey
    /\ oldestKey[p] # Key(p)
    /\ oldestKey[p] \notin DOMAIN store
    /\ Len(inserted) = maxSize

\* C8: in both programs the response to a proxied request carries X-Cache
\* with the value HIT when served from the cache and MISS when forwarded.
C8_Indicator ==
  /\ IsHit(reply)
       => "X-Cache" \in DOMAIN reply.w.hdr /\ reply.w.hdr["X-Cache"] = "HIT"
  /\ IsMiss(reply)
       => "X-Cache" \in DOMAIN reply.w.hdr /\ reply.w.hdr["X-Cache"] = "MISS"

\* p returns from a forward that succeeded
ForwardDone(p) ==
  /\ pc[p] = IF prog = "optimal" THEN "Set_send" ELSE "Set"
  /\ pc'[p] = "idle"
  /\ "Error" \notin Events(trace[p])

\* C9: in both programs the response to a successful forward has the
\* status code of the upstream response.
C9_StatusRelay ==
  [][\A p \in Procs :
       ForwardDone(p) => reply'.w.code = resp[p].status]_vars

\* C10: in main.go the entry stored after a successful forward holds the
\* headers and the body of the upstream response.
C10_CachedHeaders ==
  [][\A p \in Procs :
       (prog = "main" /\ ForwardDone(p))
         => /\ Key(p) \in DOMAIN store'
            /\ store'[Key(p)].Response = resp[p].body
            /\ store'[Key(p)].Headers = resp[p].headers]_vars

\* C11: in main.go the request the upstream receives carries every header
\* the client supplied.
C11_ClientHeadersSent ==
  [][\A p \in Procs :
       (prog = "main" /\ pc[p] = "Do" /\ pc'[p] = "Set")
         => \A h \in DOMAIN r[p].headers :
              h \in DOMAIN sent'[p] /\ sent'[p][h] = r[p].headers[h]]_vars

SameMethodAndURL(x, y) == x.method = y.method /\ URLString(x) = URLString(y)

\* C12: in both programs two requests with the same method and URL have
\* the same key whatever their headers and bodies, and a request whose method
\* and URL are those of a request already answered from a stored entry that
\* is within its TTL is served that entry.
C12_KeyIdentity ==
  /\ [](\A x, y \in RequestVariants :
          SameMethodAndURL(x, y) => generateCacheKey(x) = generateCacheKey(y))
  /\ [][\A p \in Procs : \A y \in RequestVariants :
          (GetStep(p) /\ SameMethodAndURL(y, r[p])
             /\ y \in asked[generateCacheKey(y)]
             /\ Age(store[generateCacheKey(y)]) <= store[generateCacheKey(y)].TTL)
            => /\ IsHit(reply')
               /\ reply'.w.out = store[generateCacheKey(y)].Response]_vars

\* a hit has just been served from an entry that has answered two requests
\* that differ in headers and body
C12_Witness ==
  /\ IsHit(reply)
  /\ \E k \in DOMAIN store : \E x, y \in asked[k] :
       /\ x.headers # y.headers /\ x.body # y.body
       /\ reply.w.out = store[k].Response

\* C13: in both programs a step that inserts into, deletes from or replaces
\* the map is taken inside an exclusive section: no goroutine (the one that
\* takes the step included) is inside a read section, and the runtime never
\* stops the process for a concurrent map access.
C13_ExclusiveMutation ==
  [][(store' # store => mu.r = {}) /\ ~crashed']_vars

\* C14: in optimal.go the send on the eviction channel inside Set never
\* blocks: a Set that has stored its entry finds room in the channel.
C14_SendNeverBlocks ==
  \A p \in Procs : pc[p] = "Set_send" => Len(eviction) < maxSize

\* C15: in optimal.go the eviction channel holds at most one record per key.
C15_NoDuplicateRecords ==
  \A i, j \in DOMAIN eviction : eviction[i] = eviction[j] => i = j

\* C16: in optimal.go a Set of a key that is already stored replaces its
\* entry and leaves the set of stored keys as it was.
C16_ReinsertKeepsKeys ==
  [][\A p \in Procs :
       (pc[p] = "Set_in" /\ pc'[p] = "Set_send" /\ Key(p) \in DOMAIN store)
         => /\ DOMAIN store' = DOMAIN store
            /\ store'[Key(p)] = NewEntry(p)]_vars

\* C17: in optimal.go, whenever no Set or ClearCache is under way, the keys
\* recorded in the eviction channel are the keys of the map.
C17_RecordsAgree == mu.w = NoProc => Records = DOMAIN store

Count(tr, e) == Cardinality({i \in DOMAIN tr : tr[i] = e})

\* C18: in optimal.go a request is forwarded only after its own lookup
\* missed and at most once; Cache.Set runs only after the forward and the
\* body read of that request succeeded; a hit makes no upstream call; and a
\* miss makes exactly one forward attempt unless request construction failed.
C18_Ordering ==
  [][\A p \in Procs :
       /\ (pc[p] = "Do" /\ pc'[p] # "Do")
            => /\ trace[p] = <<"Get", "NewRequest">>
               /\ resp[p] = Nil
               /\ "X-Cache" \in DOMAIN w[p].hdr /\ w[p].hdr["X-Cache"] = "MISS"
       /\ (pc[p] = "Set_in" /\ pc'[p] = "Set_send")
            => /\ trace[p] = <<"Get", "NewRequest", "Do", "ReadAll">>
               /\ resp[p] # Nil /\ body[p] = resp[p].body
               /\ w[p].code = 0
       /\ IsHit(reply') => Count(reply'.trace, "Do") = 0
       /\ (IsMiss(reply') /\ pc[p] # "idle" /\ pc'[p] = "idle")
            => /\ Count(reply'.trace, "Do") <= 1
               /\ Count(reply'.trace, "Do") = 0
                    => reply'.trace = <<"Get", "NewRequest", "Error">>
               /\ Count(reply'.trace, "Set") <= Count(reply'.trace, "ReadAll")]_vars

\* a request that missed has been forwarded once, has stored its entry and
\* has been answered
C18_Witness ==
  /\ reply # Nil
  /\ reply.trace = <<"Get", "NewRequest", "Do", "ReadAll", "Set", "Write">>
  /\ reply.w.code = 200

\* C19: in both programs a Get of a key that is stored and within its TTL
\* returns the stored entry and changes neither the map (the entry's Created
\* and TTL with it) nor the eviction channel nor the insertion order.
C19_ReadsDoNotRefresh ==
  [][\A p \in Procs :
       (GetStep(p) /\ Key(p) \in DOMAIN store
          /\ Age(store[Key(p)]) <= store[Key(p)].TTL)
         => /\ IsHit(reply')
            /\ reply'.w.out = store[Key(p)].Response
            /\ store' = store
            /\ eviction' = eviction
            /\ inserted' = inserted]_vars

\* a hit has just been served and its entry is stored as it was inserted
C19_Witness ==
  /\ IsHit(reply)
  /\ \E k \in DOMAIN store :
       /\ reply.w.out = store[k].Response
       /\ store[k].Created <= now /\ store[k].TTL = defaultTTL
       /\ prog = "optimal" => k \in Records

\* C20: in optimal.go a request that holds a response fetched before a
\* ClearCache ran does not store it once the ClearCache has returned.
C20_NoStaleStore ==
  [][\A p \in Procs :
       (pc[p] = "Set_in" /\ pc'[p] = "Set_send") => ~stale[p]]_vars

==========================================================================
